---- MODULE Spec2Model ----
(***************************************************************************)
(* Appointment-slot booking and availability subsystem of Pet-Sense.       *)
(*                                                                         *)
(* The state is the content of the MongoDB collections the handlers touch  *)
(* (users, doctors, pets, reservations, availability) plus, for every      *)
(* request in flight, the position of its handler between two awaited      *)
(* database operations and the documents it holds in memory.               *)
(*                                                                         *)
(* Every awaited database write is one step.  The reads that open a        *)
(* handler (token -> user, doctor, pet, availability / reservation) are    *)
(* taken together in the handler's Begin step: they only produce the       *)
(* in-memory snapshot the later writes are computed from.                  *)
(***************************************************************************)
EXTENDS Integers, Sequences, FiniteSets, TLC

\* ------------------------------------------------------------------ bounds
MaxRes == 2          \* reservation documents ever created
MaxCompleted == 1    \* cap of statistics.completedReservations

\* ------------------------------------------------------- program constants
DefaultSlotDuration == 30
Fee == 150

\* --------------------------------------------------------------- universe
Procs == {1, 2}      \* request handlers that can be in flight
RegularUsers == {"u1", "u2"}
DoctorUsers == {"du1", "du2"}
Users == RegularUsers \cup DoctorUsers
DoctorIds == {"D1", "D2"}
PetIds == {"p1"}
\* a Date is <<calendar day, instant within the day>>; day 0 is a Monday
Dates == {<<0, 0>>, <<0, 1>>}
NoDate == <<0, 0>>
NoId == 0            \* null / absent ObjectId
NoUser == "none"
NoDoctor == "none"

Statuses == {"pending", "confirmed", "in-progress", "completed", "cancelled", "no-show"}
Weekdays == <<"Monday", "Tuesday", "Wednesday", "Thursday", "Friday", "Saturday", "Sunday">>

\* "HH:MM" strings are pairs <<hh, mm>>
T0900 == <<9, 0>>
T0930 == <<9, 30>>
T1000 == <<10, 0>>
Times == {T0900, T0930}

\* ------------------------------------------------------------- date helpers
\* new Date(y, m, d + k) of a Date: midnight of its local calendar day, k days on
DayStart(date, k) == <<date[1] + k, 0>>

DateLess(a, b) == a[1] < b[1] \/ (a[1] = b[1] /\ a[2] < b[2])

\* date: { $gte: new Date(y, m, d), $lt: new Date(y, m, d + 1) }
InDayRange(docDate, requestedDate) ==
    /\ ~DateLess(docDate, DayStart(requestedDate, 0))
    /\ DateLess(docDate, DayStart(requestedDate, 1))

\* requestedDate.toLocaleDateString("en-US", { weekday: "long" })
DayName(date) == Weekdays[(date[1] % Len(Weekdays)) + 1]

\* ------------------------------------------------------------ slot generator
\* new Date(`2000-01-01T${t}:00`) as minutes since 2000-01-01T00:00
ParseTime(t) == t[1] * 60 + t[2]

\* date.toTimeString().slice(0, 5)
FormatTime(m) == <<(m \div 60) % 24, m % 60>>

\* a loop that pushes the slot without testing start <= end
RECURSIVE GenLoop_KeepsRemainder(_, _, _, _)
GenLoop_KeepsRemainder(start, end, slotDuration, slots) ==
    IF start < end
    THEN LET next == start + slotDuration
             slot == [startTime |-> FormatTime(start), endTime |-> FormatTime(next),
                      isAvailable |-> TRUE, reservationId |-> NoId]
         IN GenLoop_KeepsRemainder(next, end, slotDuration, Append(slots, slot))
    ELSE slots

\* while (start < end) { ...; if (start <= end) slots.push(...) }
RECURSIVE GenLoop(_, _, _, _)
GenLoop(start, end, slotDuration, slots) ==
    IF start < end
    THEN LET next == start + slotDuration
             slot == [startTime |-> FormatTime(start), endTime |-> FormatTime(next),
                      isAvailable |-> TRUE, reservationId |-> NoId]
         IN GenLoop(next, end, slotDuration,
                    IF next <= end THEN Append(slots, slot) ELSE slots)
    ELSE slots

generateTimeSlots(startTime, endTime, slotDuration) ==
    GenLoop(ParseTime(startTime), ParseTime(endTime), slotDuration, << >>)

\* ------------------------------------------------------------------- state
VARIABLES
    users,          \* User collection: user id -> document
    doctors,        \* Doctor collection: doctor id -> document
    pets,           \* Pet collection: pet id -> document
    reservations,   \* Reservation collection; the index is the document's _id
    availability,   \* Availability collection; the index is the document's _id
    pc,             \* per handler in flight: the awaited operation it is about to run
    req,            \* per handler in flight: request body and in-memory documents
    gen             \* a call of generateTimeSlots: its arguments and its return value

vars == <<users, doctors, pets, reservations, availability, pc, req, gen>>

\* no call of generateTimeSlots under observation
NoCall == [startTime |-> T0900, endTime |-> T0900, slotDuration |-> DefaultSlotDuration,
           slots |-> << >>, returned |-> FALSE]

NoCancellation == [cancelledBy |-> NoUser, reason |-> "none"]

NoReq == [op |-> "none", user |-> NoUser, doctorId |-> NoDoctor, petId |-> "none",
          date |-> NoDate, time |-> T0900, rid |-> NoId, availId |-> NoId,
          slots |-> << >>, isWorkingDay |-> TRUE, status |-> "none",
          statusModified |-> FALSE, setCancel |-> FALSE, fee |-> 0,
          stale |-> FALSE]


FreeSlot(s, e) == [startTime |-> s, endTime |-> e, isAvailable |-> TRUE, reservationId |-> NoId]
BlockedSlot(s, e) == [startTime |-> s, endTime |-> e, isAvailable |-> FALSE, reservationId |-> NoId]

\* the timeSlots arrays a doctor sends in the body of POST /api/availability
SuppliedSlotLists ==
    { << >>,
      <<BlockedSlot(T0900, T0930)>>,
      <<FreeSlot(T0900, T0930), FreeSlot(T0900, T0930)>> }

WorkingHoursOf(d) ==
    IF d = "D1"
    THEN <<[day |-> "Monday", startTime |-> T0900, endTime |-> T1000, isAvailable |-> TRUE]>>
    ELSE <<[day |-> "Monday", startTime |-> T0900, endTime |-> T1000, isAvailable |-> FALSE]>>

\* the accounts exist, nothing is booked; days is the Availability collection
\* and profiles the doctors that have completed a doctor profile
InitStore(days, profiles, verified) ==
    /\ users = [u \in Users |->
                  [exists |-> TRUE, isActive |-> TRUE,
                   userType |-> IF u \in DoctorUsers THEN "doctor" ELSE "user"]]
    /\ doctors = [d \in DoctorIds |->
                  [exists |-> (d \in profiles), userId |-> IF d = "D1" THEN "du1" ELSE "du2",
                   isActive |-> TRUE, isVerified |-> (d \in verified), consultationFee |-> Fee,
                   workingHours |-> WorkingHoursOf(d),
                   statistics |-> [totalPatients |-> 0, totalReservations |-> 0,
                                   completedReservations |-> 0]]]
    /\ pets = [pt \in PetIds |->
                  [exists |-> TRUE, isActive |-> TRUE,
                   ownerId |-> "u1"]]
    /\ reservations = << >>
    /\ availability = days
    /\ pc = [p \in Procs |-> "idle"]
    /\ req = [p \in Procs |-> NoReq]

InitDb(days, profiles) == InitStore(days, profiles, DoctorIds) /\ gen = NoCall

InitWith(days) == InitDb(days, {"D1"})

Init == InitWith(<< >>)

\* --------------------------------------------------------------- responses
\* return NextResponse.json(...): the handler ends; code and r name the response
Respond(p, code, r) ==
    /\ pc' = [pc EXCEPT ![p] = "idle"]
    /\ req' = [req EXCEPT ![p] = NoReq]
    /\ UNCHANGED gen

\* a response sent before any write of the handler
Reject(p, code, r) ==
    /\ Respond(p, code, r)
    /\ UNCHANGED <<users, doctors, pets, reservations, availability>>

\* the handler goes on to its next awaited operation
Goto(p, label, r) ==
    /\ pc' = [pc EXCEPT ![p] = label]
    /\ req' = [req EXCEPT ![p] = r]
    /\ UNCHANGED gen

\* ------------------------------------------------------- query helpers
\* a lookup that forgets the userId filter
DoctorOf_AnyProfile(u) ==
    IF \E d \in DoctorIds : doctors[d].exists
    THEN CHOOSE d \in DoctorIds : doctors[d].exists
    ELSE NoDoctor

\* Doctor.findOne({ userId })
DoctorOf(u) ==
    IF \E d \in DoctorIds : doctors[d].exists /\ doctors[d].userId = u
    THEN CHOOSE d \in DoctorIds : doctors[d].exists /\ doctors[d].userId = u
    ELSE NoDoctor

\* Availability documents of a doctor whose date falls in the day of requestedDate
DayDocs(d, requestedDate) ==
    {i \in DOMAIN availability :
        /\ availability[i].doctorId = d
        /\ InDayRange(availability[i].date, requestedDate)}

\* index of the first array element a positional $ resolves to
FirstWithStart(slots, t) ==
    CHOOSE i \in DOMAIN slots :
        /\ slots[i].startTime = t
        /\ \A j \in 1..(i - 1) : slots[j].startTime # t

\* a positional $ that lands on the first slot carrying any reservation
FirstWithRes_AnyHeld(slots, rid) ==
    CHOOSE i \in DOMAIN slots :
        /\ slots[i].reservationId # NoId
        /\ \A j \in 1..(i - 1) : slots[j].reservationId = NoId

FirstWithRes(slots, rid) ==
    CHOOSE i \in DOMAIN slots :
        /\ slots[i].reservationId = rid
        /\ \A j \in 1..(i - 1) : slots[j].reservationId # rid

\* availability.timeSlots.find(slot => startTime === t && isAvailable && !reservationId)
HasFreeSlot(slots, t) ==
    \E i \in DOMAIN slots :
        /\ slots[i].startTime = t
        /\ slots[i].isAvailable
        /\ slots[i].reservationId = NoId

\* bookings that passed their checks and have not yet saved their reservation
BookingsAboutToSave == Cardinality({p \in Procs : pc[p] = "book_save"})

\* ------------------------------------------ POST /api/reservations (booking)
\* a booking that forgets to test isWorkingDay
BookBegin_IgnoresWorkingDay(p, fromUsers, onDates, atTimes) ==
    /\ pc[p] = "idle"
    /\ \E u \in fromUsers, d \in DoctorIds, pt \in PetIds, date \in onDates, t \in atTimes :
         LET r == [NoReq EXCEPT !.op = "book", !.user = u, !.doctorId = d, !.petId = pt,
                                !.date = date, !.time = t]
         IN IF ~users[u].exists \/ users[u].userType # "user"
            THEN Reject(p, "forbidden", r)
            ELSE IF ~doctors[d].exists \/ ~doctors[d].isActive \/ ~doctors[d].isVerified
            THEN Reject(p, "doctor_not_found", r)
            ELSE IF ~(pets[pt].exists /\ pets[pt].ownerId = u /\ pets[pt].isActive)
            THEN Reject(p, "pet_not_found", r)
            ELSE IF DayDocs(d, date) = {}
            THEN Reject(p, "doctor_not_available", r)
            ELSE \E i \in DayDocs(d, date) :
                   IF ~HasFreeSlot(availability[i].timeSlots, t)
                   THEN Reject(p, "slot_unavailable", r)
                   ELSE /\ Len(reservations) + BookingsAboutToSave < MaxRes
                        /\ Goto(p, "book_save",
                                [r EXCEPT !.availId = i, !.fee = doctors[d].consultationFee])
                        /\ UNCHANGED <<users, doctors, pets, reservations, availability>>

\* a booking that looks the pet up without the ownerId filter
BookBegin_AnyOwner(p, fromUsers, onDates, atTimes) ==
    /\ pc[p] = "idle"
    /\ \E u \in fromUsers, d \in DoctorIds, pt \in PetIds, date \in onDates, t \in atTimes :
         LET r == [NoReq EXCEPT !.op = "book", !.user = u, !.doctorId = d, !.petId = pt,
                                !.date = date, !.time = t]
         IN IF ~users[u].exists \/ users[u].userType # "user"
            THEN Reject(p, "forbidden", r)
            ELSE IF ~doctors[d].exists \/ ~doctors[d].isActive \/ ~doctors[d].isVerified
            THEN Reject(p, "doctor_not_found", r)
            ELSE IF ~(pets[pt].exists /\ pets[pt].isActive)
            THEN Reject(p, "pet_not_found", r)
            ELSE IF DayDocs(d, date) = {}
            THEN Reject(p, "doctor_not_available", r)
            ELSE \E i \in DayDocs(d, date) :
                   IF ~availability[i].isWorkingDay
                   THEN Reject(p, "doctor_not_available", r)
                   ELSE IF ~HasFreeSlot(availability[i].timeSlots, t)
                   THEN Reject(p, "slot_unavailable", r)
                   ELSE /\ Len(reservations) + BookingsAboutToSave < MaxRes
                        /\ Goto(p, "book_save",
                                [r EXCEPT !.availId = i, !.fee = doctors[d].consultationFee])
                        /\ UNCHANGED <<users, doctors, pets, reservations, availability>>

\* the handler up to reservation.save(), for one request body
BookRequest(p, u, d, pt, date, t) ==
    LET r == [NoReq EXCEPT !.op = "book", !.user = u, !.doctorId = d, !.petId = pt,
                           !.date = date, !.time = t]
    IN IF ~users[u].exists \/ users[u].userType # "user"
       THEN Reject(p, "forbidden", r)
       ELSE IF ~doctors[d].exists \/ ~doctors[d].isActive \/ ~doctors[d].isVerified
       THEN Reject(p, "doctor_not_found", r)
       ELSE IF ~(pets[pt].exists /\ pets[pt].ownerId = u /\ pets[pt].isActive)
       THEN Reject(p, "pet_not_found", r)
       ELSE IF DayDocs(d, date) = {}
       THEN Reject(p, "doctor_not_available", r)
       ELSE \E i \in DayDocs(d, date) :
              IF ~availability[i].isWorkingDay
              THEN Reject(p, "doctor_not_available", r)
              ELSE IF ~HasFreeSlot(availability[i].timeSlots, t)
              THEN Reject(p, "slot_unavailable", r)
              ELSE /\ Len(reservations) + BookingsAboutToSave < MaxRes
                   /\ Goto(p, "book_save",
                           [r EXCEPT !.availId = i, !.fee = doctors[d].consultationFee])
                   /\ UNCHANGED <<users, doctors, pets, reservations, availability>>

\* the request bodies are drawn from the given users, dates and times
BookBegin(p, fromUsers, onDates, atTimes) ==
    /\ pc[p] = "idle"
    /\ \E u \in fromUsers, d \in DoctorIds, pt \in PetIds, date \in onDates, t \in atTimes :
         BookRequest(p, u, d, pt, date, t)

\* a reservation whose totalAmount is left out of the fees
NewReservation_NoTotal(r) ==
    [userId |-> r.user, doctorId |-> r.doctorId, petId |-> r.petId,
     appointmentDate |-> r.date, appointmentTime |-> r.time, status |-> "pending",
     fees |-> [consultationFee |-> r.fee, additionalCharges |-> 0,
               totalAmount |-> 0, paymentStatus |-> "pending"],
     cancellation |-> NoCancellation]

\* new Reservation({...}); await reservation.save()
NewReservation(r) ==
    [userId |-> r.user, doctorId |-> r.doctorId, petId |-> r.petId,
     appointmentDate |-> r.date, appointmentTime |-> r.time, status |-> "pending",
     fees |-> [consultationFee |-> r.fee, additionalCharges |-> 0,
               totalAmount |-> r.fee, paymentStatus |-> "pending"],
     cancellation |-> NoCancellation]

BookSave(p) ==
    /\ pc[p] = "book_save"
    /\ reservations' = Append(reservations, NewReservation(req[p]))
    /\ Goto(p, "book_update_slot", [req[p] EXCEPT !.rid = Len(reservations) + 1])
    /\ UNCHANGED <<users, doctors, pets, availability>>

\* a claim whose positional $ lands on the first element of the array
ClaimSlot_FirstElement(slots, t, rid) ==
    IF \E i \in DOMAIN slots : slots[i].startTime = t
    THEN [slots EXCEPT ![1] = [@ EXCEPT !.isAvailable = FALSE, !.reservationId = rid]]
    ELSE slots

\* Availability.updateOne({ _id, "timeSlots.startTime": t },
\*                        { $set: { "timeSlots.$.isAvailable": false, "timeSlots.$.reservationId": rid } })
ClaimSlot(slots, t, rid) ==
    IF \E i \in DOMAIN slots : slots[i].startTime = t
    THEN [slots EXCEPT ![FirstWithStart(slots, t)] =
             [@ EXCEPT !.isAvailable = FALSE, !.reservationId = rid]]
    ELSE slots

BookUpdateSlot(p) ==
    /\ pc[p] = "book_update_slot"
    /\ availability' = [availability EXCEPT ![req[p].availId].timeSlots =
                           ClaimSlot(@, req[p].time, req[p].rid)]
    /\ Goto(p, "book_inc", req[p])
    /\ UNCHANGED <<users, doctors, pets, reservations>>

\* Doctor.findByIdAndUpdate(doctorId, { $inc: { "statistics.totalReservations": 1 } })
BookInc(p) ==
    /\ pc[p] = "book_inc"
    /\ doctors' = IF doctors[req[p].doctorId].exists
                  THEN [doctors EXCEPT ![req[p].doctorId].statistics.totalReservations = @ + 1]
                  ELSE doctors
    /\ Respond(p, "ok", req[p])
    /\ UNCHANGED <<users, pets, reservations, availability>>

\* --------------------------------- POST /api/availability (create or update)
\* doctor.workingHours.find(wh => wh.day === dayName && wh.isAvailable)
EnabledHours(d, date) ==
    {k \in DOMAIN doctors[d].workingHours :
        /\ doctors[d].workingHours[k].day = DayName(date)
        /\ doctors[d].workingHours[k].isAvailable}

FirstEnabledHours(d, date) ==
    doctors[d].workingHours[CHOOSE k \in EnabledHours(d, date) :
                               \A j \in EnabledHours(d, date) : k <= j]

\* an availability request that records a non-working day with no slots when
\* the doctor has no enabled working hours on the weekday
AvailRequest_RecordsNonWorking(p, u, date, generateFromWorkingHours, isWorkingDay, timeSlots) ==
    LET d == DoctorOf(u)
        r == [NoReq EXCEPT !.op = "avail", !.user = u, !.doctorId = d, !.date = date]
        existing == DayDocs(d, date)
    IN IF ~users[u].exists \/ users[u].userType # "doctor"
       THEN Reject(p, "forbidden", r)
       ELSE IF d = NoDoctor
       THEN Reject(p, "doctor_not_found", r)
       ELSE \E i \in (IF existing = {} THEN {NoId} ELSE existing) :
              IF generateFromWorkingHours /\ isWorkingDay
              THEN IF EnabledHours(d, date) # {}
                   THEN /\ Goto(p, "avail_save",
                                [r EXCEPT !.availId = i, !.isWorkingDay = TRUE,
                                   !.slots = generateTimeSlots(
                                       FirstEnabledHours(d, date).startTime,
                                       FirstEnabledHours(d, date).endTime,
                                       DefaultSlotDuration)])
                        /\ UNCHANGED <<users, doctors, pets, reservations, availability>>
                   ELSE /\ Goto(p, "avail_save",
                                [r EXCEPT !.availId = i, !.isWorkingDay = FALSE,
                                          !.slots = << >>])
                        /\ UNCHANGED <<users, doctors, pets, reservations, availability>>
              ELSE /\ Goto(p, "avail_save",
                           [r EXCEPT !.availId = i, !.isWorkingDay = isWorkingDay,
                                     !.slots = timeSlots])
                   /\ UNCHANGED <<users, doctors, pets, reservations, availability>>

\* the handler up to availability.save(), for one request body
AvailRequest(p, u, date, generateFromWorkingHours, isWorkingDay, timeSlots) ==
    LET d == DoctorOf(u)
        r == [NoReq EXCEPT !.op = "avail", !.user = u, !.doctorId = d, !.date = date]
        existing == DayDocs(d, date)
    IN IF ~users[u].exists \/ users[u].userType # "doctor"
       THEN Reject(p, "forbidden", r)
       ELSE IF d = NoDoctor
       THEN Reject(p, "doctor_not_found", r)
       ELSE \E i \in (IF existing = {} THEN {NoId} ELSE existing) :
              IF generateFromWorkingHours /\ isWorkingDay
              THEN IF EnabledHours(d, date) # {}
                   THEN /\ Goto(p, "avail_save",
                                [r EXCEPT !.availId = i, !.isWorkingDay = TRUE,
                                   !.slots = generateTimeSlots(
                                       FirstEnabledHours(d, date).startTime,
                                       FirstEnabledHours(d, date).endTime,
                                       DefaultSlotDuration)])
                        /\ UNCHANGED <<users, doctors, pets, reservations, availability>>
                   ELSE Reject(p, "no_working_hours", r)
              ELSE /\ Goto(p, "avail_save",
                           [r EXCEPT !.availId = i, !.isWorkingDay = isWorkingDay,
                                     !.slots = timeSlots])
                   /\ UNCHANGED <<users, doctors, pets, reservations, availability>>

\* the request bodies are drawn from the given users, dates and slot lists
AvailBegin(p, fromUsers, onDates, slotLists) ==
    /\ pc[p] = "idle"
    /\ \E u \in fromUsers, date \in onDates, generateFromWorkingHours \in BOOLEAN,
          isWorkingDay \in BOOLEAN, timeSlots \in slotLists :
         AvailRequest(p, u, date, generateFromWorkingHours, isWorkingDay, timeSlots)

\* the handlers that loaded Availability document i before this save: the save
\* replaces the timeSlots array and so increments the document's version key
MarkStale(p, i) ==
    [q \in Procs |->
        IF q = p THEN NoReq
        ELSE IF pc[q] = "avail_save" /\ req[q].availId = i
        THEN [req[q] EXCEPT !.stale = TRUE]
        ELSE req[q]]

\* await availability.save(): an update of the loaded document, which fails when
\* the document's version has moved since it was loaded, or an insert that the
\* unique index { doctorId: 1, date: 1 } rejects when the exact date exists
AvailSave(p) ==
    /\ pc[p] = "avail_save"
    /\ IF req[p].availId # NoId
       THEN IF req[p].stale
            THEN /\ UNCHANGED availability
                 /\ Respond(p, "error", req[p])
            ELSE /\ availability' = [availability EXCEPT
                                        ![req[p].availId].timeSlots = req[p].slots,
                                        ![req[p].availId].isWorkingDay = req[p].isWorkingDay]
                 /\ pc' = [pc EXCEPT ![p] = "idle"]
                 /\ req' = MarkStale(p, req[p].availId)
                 /\ UNCHANGED gen
       ELSE IF \E i \in DOMAIN availability :
                   /\ availability[i].doctorId = req[p].doctorId
                   /\ availability[i].date = req[p].date
            THEN /\ UNCHANGED availability
                 /\ Respond(p, "error", req[p])
            ELSE /\ availability' = Append(availability,
                                       [doctorId |-> req[p].doctorId, date |-> req[p].date,
                                        timeSlots |-> req[p].slots,
                                        isWorkingDay |-> req[p].isWorkingDay])
                 /\ Respond(p, "ok", req[p])
    /\ UNCHANGED <<users, doctors, pets, reservations>>

\* ------------------------------ PUT /api/reservations/[id] (status update)
\* a doctor branch that also takes "cancelled"
AllowedStatuses_WithCancelled ==
    {"confirmed", "in-progress", "completed", "no-show", "cancelled"}

\* const allowedStatuses = [...] of the doctor branch
AllowedStatuses == {"confirmed", "in-progress", "completed", "no-show"}

\* the handler up to its first write, for one request
PutRequest(p, u, rid, status) ==
    LET r0 == [NoReq EXCEPT !.op = "put", !.user = u, !.rid = rid, !.status = status]
    IN IF rid > Len(reservations)
       THEN Reject(p, "not_found", r0)
       ELSE LET reservation == reservations[rid]
                r == [r0 EXCEPT !.doctorId = reservation.doctorId,
                                !.date = reservation.appointmentDate,
                                !.time = reservation.appointmentTime]
                isOwner == reservation.userId = u
                isDoctor == users[u].exists /\ users[u].userType = "doctor"
            IN IF isDoctor
               THEN IF DoctorOf(u) = NoDoctor \/ reservation.doctorId # DoctorOf(u)
                    THEN Reject(p, "forbidden", r)
                    ELSE IF status \notin AllowedStatuses
                    THEN Reject(p, "invalid_status", r)
                    ELSE /\ status = "completed" =>
                              doctors[DoctorOf(u)].statistics.completedReservations
                                  < MaxCompleted
                         /\ Goto(p, IF status = "completed" THEN "put_inc" ELSE "put_save",
                                 [r EXCEPT !.statusModified = (status # reservation.status)])
                         /\ UNCHANGED <<users, doctors, pets, reservations, availability>>
               ELSE IF isOwner /\ status = "cancelled"
               THEN IF reservation.status \notin {"pending", "confirmed"}
                    THEN Reject(p, "cannot_cancel", r)
                    ELSE /\ Goto(p, "put_release",
                                 [r EXCEPT !.statusModified = TRUE, !.setCancel = TRUE])
                         /\ UNCHANGED <<users, doctors, pets, reservations, availability>>
               ELSE Reject(p, "unauthorized", r)

\* the requests are drawn from the given users and statuses
PutBegin(p, fromUsers, toStatuses) ==
    /\ pc[p] = "idle"
    /\ \E u \in fromUsers, rid \in 1..MaxRes, status \in toStatuses :
         PutRequest(p, u, rid, status)

\* a release that forgets to clear the reference
ReleaseSlot_KeepsReference(slots, rid) ==
    [slots EXCEPT ![FirstWithRes(slots, rid)] = [@ EXCEPT !.isAvailable = TRUE]]

\* { $set: { "timeSlots.$.isAvailable": true, "timeSlots.$.reservationId": null } }
ReleaseSlot(slots, rid) ==
    [slots EXCEPT ![FirstWithRes(slots, rid)] =
        [@ EXCEPT !.isAvailable = TRUE, !.reservationId = NoId]]

\* documents matched by { doctorId, date: day range, "timeSlots.reservationId": rid }
HoldingDocs(d, date, rid) ==
    {i \in DayDocs(d, date) :
        \E k \in DOMAIN availability[i].timeSlots :
            availability[i].timeSlots[k].reservationId = rid}

\* a completion that also frees the time slot
PutInc_Releases(p) ==
    /\ pc[p] = "put_inc"
    /\ doctors' = IF doctors[req[p].doctorId].exists
                  THEN [doctors EXCEPT
                           ![req[p].doctorId].statistics.completedReservations = @ + 1,
                           ![req[p].doctorId].statistics.totalPatients = @ + 1]
                  ELSE doctors
    /\ LET M == HoldingDocs(req[p].doctorId, req[p].date, req[p].rid)
       IN IF M = {}
          THEN UNCHANGED availability
          ELSE \E i \in M :
                 availability' = [availability EXCEPT ![i].timeSlots =
                                     ReleaseSlot(@, req[p].rid)]
    /\ Goto(p, "put_save", req[p])
    /\ UNCHANGED <<users, pets, reservations>>

\* Doctor.findByIdAndUpdate(doctor._id, { $inc: { completedReservations: 1, totalPatients: 1 } })
PutInc(p) ==
    /\ pc[p] = "put_inc"
    /\ doctors' = IF doctors[req[p].doctorId].exists
                  THEN [doctors EXCEPT
                           ![req[p].doctorId].statistics.completedReservations = @ + 1,
                           ![req[p].doctorId].statistics.totalPatients = @ + 1]
                  ELSE doctors
    /\ Goto(p, "put_save", req[p])
    /\ UNCHANGED <<users, pets, reservations, availability>>

\* a release that, when no slot carries the reservation, frees the slot of
\* the reservation's start time instead
PutRelease_FreesByTime(p) ==
    /\ pc[p] = "put_release"
    /\ LET M == HoldingDocs(req[p].doctorId, req[p].date, req[p].rid)
       IN IF M = {}
          THEN availability' =
                 [i \in DOMAIN availability |->
                    IF i \in DayDocs(req[p].doctorId, req[p].date)
                    THEN [availability[i] EXCEPT !.timeSlots =
                            [k \in DOMAIN @ |->
                               IF @[k].startTime = req[p].time
                               THEN [@[k] EXCEPT !.isAvailable = TRUE, !.reservationId = NoId]
                               ELSE @[k]]]
                    ELSE availability[i]]
          ELSE \E i \in M :
                 availability' = [availability EXCEPT ![i].timeSlots =
                                     ReleaseSlot(@, req[p].rid)]
    /\ Goto(p, "put_save", req[p])
    /\ UNCHANGED <<users, doctors, pets, reservations>>

\* Availability.updateOne(...) freeing the time slot of a cancelled reservation
PutRelease(p) ==
    /\ pc[p] = "put_release"
    /\ LET M == HoldingDocs(req[p].doctorId, req[p].date, req[p].rid)
       IN IF M = {}
          THEN UNCHANGED availability
          ELSE \E i \in M :
                 availability' = [availability EXCEPT ![i].timeSlots =
                                     ReleaseSlot(@, req[p].rid)]
    /\ Goto(p, "put_save", req[p])
    /\ UNCHANGED <<users, doctors, pets, reservations>>

\* await reservation.save(): writes the paths the handler modified
SavedReservation(reservation, r) ==
    [reservation EXCEPT
        !.status = IF r.statusModified THEN r.status ELSE @,
        !.cancellation = IF r.setCancel
                         THEN [cancelledBy |-> r.user, reason |-> "Cancelled by user"]
                         ELSE @]

PutSave(p) ==
    /\ pc[p] = "put_save"
    /\ reservations' = [reservations EXCEPT ![req[p].rid] = SavedReservation(@, req[p])]
    /\ Respond(p, "ok", req[p])
    /\ UNCHANGED <<users, doctors, pets, availability>>

\* ------------------------------------------------ DELETE /api/users/account
DelBegin(p, fromUsers) ==
    /\ pc[p] = "idle"
    /\ \E u \in fromUsers, deleteType \in {"deactivate", "permanent"} :
         LET r == [NoReq EXCEPT !.op = deleteType, !.user = u]
         IN IF ~users[u].exists
            THEN Reject(p, "user_not_found", r)
            ELSE /\ Goto(p, IF deleteType = "deactivate" THEN "deact_user" ELSE "perm_res",
                         [r EXCEPT !.status = users[u].userType])
                 /\ UNCHANGED <<users, doctors, pets, reservations, availability>>

\* User.findByIdAndUpdate(userId, { isActive: false, ... })
DeactUser(p) ==
    /\ pc[p] = "deact_user"
    /\ users' = IF users[req[p].user].exists
                THEN [users EXCEPT ![req[p].user].isActive = FALSE]
                ELSE users
    /\ Goto(p, IF req[p].status = "doctor" THEN "deact_doctor" ELSE "deact_pets", req[p])
    /\ UNCHANGED <<doctors, pets, reservations, availability>>

\* Doctor.findOneAndUpdate({ userId }, { isActive: false, ... })
DeactDoctor(p) ==
    /\ pc[p] = "deact_doctor"
    /\ doctors' = IF DoctorOf(req[p].user) # NoDoctor
                  THEN [doctors EXCEPT ![DoctorOf(req[p].user)].isActive = FALSE]
                  ELSE doctors
    /\ Goto(p, "deact_pets", req[p])
    /\ UNCHANGED <<users, pets, reservations, availability>>

\* Pet.updateMany({ ownerId }, { isActive: false, ... })
DeactPets(p) ==
    /\ pc[p] = "deact_pets"
    /\ pets' = [pt \in PetIds |->
                  IF pets[pt].exists /\ pets[pt].ownerId = req[p].user
                  THEN [pets[pt] EXCEPT !.isActive = FALSE]
                  ELSE pets[pt]]
    /\ Goto(p, "deact_res", req[p])
    /\ UNCHANGED <<users, doctors, reservations, availability>>

\* a bulk cancellation that forgets the status filter
CancelAll_AnyStatus(u, isDoctorUser, reason) ==
    LET d == IF isDoctorUser THEN DoctorOf(u) ELSE NoDoctor
    IN [i \in DOMAIN reservations |->
          IF reservations[i].userId = u \/ reservations[i].doctorId = d
          THEN [reservations[i] EXCEPT
                   !.status = "cancelled",
                   !.cancellation = [cancelledBy |-> u, reason |-> reason]]
          ELSE reservations[i]]

\* Reservation.updateMany({ $or: [{ userId }, { doctorId }], status: { $in: [pending, confirmed] } },
\*                        { status: "cancelled", cancellation: {...} })
CancelAll(u, isDoctorUser, reason) ==
    LET d == IF isDoctorUser THEN DoctorOf(u) ELSE NoDoctor
    IN [i \in DOMAIN reservations |->
          IF /\ reservations[i].userId = u \/ reservations[i].doctorId = d
             /\ reservations[i].status \in {"pending", "confirmed"}
          THEN [reservations[i] EXCEPT
                   !.status = "cancelled",
                   !.cancellation = [cancelledBy |-> u, reason |-> reason]]
          ELSE reservations[i]]

DeactRes(p) ==
    /\ pc[p] = "deact_res"
    /\ reservations' = CancelAll(req[p].user, req[p].status = "doctor", "Account deactivated")
    /\ Respond(p, "ok", req[p])
    /\ UNCHANGED <<users, doctors, pets, availability>>

PermRes(p) ==
    /\ pc[p] = "perm_res"
    /\ reservations' = CancelAll(req[p].user, req[p].status = "doctor", "Account deleted")
    /\ Goto(p, IF req[p].status = "doctor" THEN "perm_doctor" ELSE "perm_pets", req[p])
    /\ UNCHANGED <<users, doctors, pets, availability>>

\* Doctor.findOneAndDelete({ userId })
PermDoctor(p) ==
    /\ pc[p] = "perm_doctor"
    /\ doctors' = IF DoctorOf(req[p].user) # NoDoctor
                  THEN [doctors EXCEPT ![DoctorOf(req[p].user)].exists = FALSE]
                  ELSE doctors
    /\ Goto(p, "perm_pets", req[p])
    /\ UNCHANGED <<users, pets, reservations, availability>>

\* Pet.deleteMany({ ownerId })
PermPets(p) ==
    /\ pc[p] = "perm_pets"
    /\ pets' = [pt \in PetIds |->
                  IF pets[pt].ownerId = req[p].user
                  THEN [pets[pt] EXCEPT !.exists = FALSE]
                  ELSE pets[pt]]
    /\ Goto(p, "perm_user", req[p])
    /\ UNCHANGED <<users, doctors, reservations, availability>>

\* User.findByIdAndDelete(userId)
PermUser(p) ==
    /\ pc[p] = "perm_user"
    /\ users' = [users EXCEPT ![req[p].user].exists = FALSE]
    /\ Respond(p, "ok", req[p])
    /\ UNCHANGED <<doctors, pets, reservations, availability>>

\* ---------------------------------------- PUT /api/doctors/profile (the fee)
\* the fees a doctor sends: any number >= 0 passes the validation
FeeChoices == {0, Fee}

ProfileBegin(p, fromUsers, fees) ==
    /\ pc[p] = "idle"
    /\ \E u \in fromUsers, consultationFee \in fees :
         LET d == DoctorOf(u)
             r == [NoReq EXCEPT !.op = "profile", !.user = u, !.doctorId = d,
                                !.fee = consultationFee]
         IN IF ~users[u].exists \/ users[u].userType # "doctor"
            THEN Reject(p, "forbidden", r)
            ELSE IF d = NoDoctor
            THEN Reject(p, "doctor_not_found", r)
            ELSE /\ Goto(p, "profile_save", r)
                 /\ UNCHANGED <<users, doctors, pets, reservations, availability>>

\* Doctor.findByIdAndUpdate(doctor._id, updateData, ...)
ProfileSave(p) ==
    /\ pc[p] = "profile_save"
    /\ doctors' = IF doctors[req[p].doctorId].exists
                  THEN [doctors EXCEPT ![req[p].doctorId].consultationFee = req[p].fee]
                  ELSE doctors
    /\ Respond(p, "ok", req[p])
    /\ UNCHANGED <<users, pets, reservations, availability>>

\* ------------------------------------------------------- database failure
\* an awaited write throws: the handler's catch block answers 500
WriteFail(p) ==
    /\ pc[p] # "idle"
    /\ Respond(p, "error", req[p])
    /\ UNCHANGED <<users, doctors, pets, reservations, availability>>

\* ----------------------------------------------------------- specifications
Midnight == {<<0, 0>>}

\* the steps that follow a handler's opening reads
BookSteps(p) == BookSave(p) \/ BookUpdateSlot(p) \/ BookInc(p)
PutSteps(p) == PutInc(p) \/ PutRelease(p) \/ PutSave(p)
DelSteps(p) ==
    \/ DeactUser(p) \/ DeactDoctor(p) \/ DeactPets(p) \/ DeactRes(p)
    \/ PermRes(p) \/ PermDoctor(p) \/ PermPets(p) \/ PermUser(p)

\* requests served one at a time: each runs to its response before the next starts
Worker == CHOOSE p \in Procs : \A q \in Procs : p <= q

\* booking, availability and status-update requests, with failing writes
Next ==
    \/ BookBegin(Worker, Users, Midnight, {T0900}) \/ BookSteps(Worker)
    \/ AvailBegin(Worker, Users, Midnight, SuppliedSlotLists) \/ AvailSave(Worker)
    \/ PutBegin(Worker, Users, Statuses) \/ PutSteps(Worker)
    \/ WriteFail(Worker)

Spec == Init /\ [][Next]_vars

\* account closing next to booking and status updates, every write succeeding
AccountHolders == {"u1", "du1"}

NextAccount ==
    \/ BookBegin(Worker, Users, Midnight, {T0900}) \/ BookSteps(Worker)
    \/ AvailBegin(Worker, Users, Midnight, {<< >>}) \/ AvailSave(Worker)
    \/ PutBegin(Worker, Users, {"confirmed", "in-progress", "completed", "cancelled"}) \/ PutSteps(Worker)
    \/ DelBegin(Worker, AccountHolders) \/ DelSteps(Worker)

SpecAccount == Init /\ [][NextAccount]_vars

\* the database once doctor D1 has published day 0 from the working hours
InitDay ==
    InitWith(<<[doctorId |-> "D1", date |-> <<0, 0>>, isWorkingDay |-> TRUE,
                timeSlots |-> generateTimeSlots(T0900, T1000, DefaultSlotDuration)]>>)

\* booking requests in flight together: their database steps interleave freely
NextRace ==
    \E p \in Procs : BookBegin(p, RegularUsers, Dates, Times) \/ BookSteps(p)

SpecRace == InitDay /\ [][NextRace]_vars

\* two doctors with a profile, D1 publishing days and receiving bookings, and
\* status updates sent by every user; every write succeeds
InitTwoDoctors == InitDb(<< >>, DoctorIds)

NextVisit ==
    \/ BookBegin(Worker, RegularUsers, Midnight, {T0900}) \/ BookSteps(Worker)
    \/ AvailBegin(Worker, {"du1"}, Midnight, {<<FreeSlot(T0900, T0930)>>}) \/ AvailSave(Worker)
    \/ PutBegin(Worker, Users, Statuses) \/ PutSteps(Worker)

SpecVisit == InitTwoDoctors /\ [][NextVisit]_vars

\* the calendar of doctor D1: days published from the working hours or from a
\* supplied list, at either instant of the day, and bookings against them;
\* requests served one at a time, every write succeeding
NextCalendar ==
    \/ BookBegin(Worker, RegularUsers, Dates, Times) \/ BookSteps(Worker)
    \/ AvailBegin(Worker, {"du1"}, Dates, SuppliedSlotLists) \/ AvailSave(Worker)

SpecCalendar == Init /\ [][NextCalendar]_vars

\* availability requests of doctor D1 in flight together, for either instant
\* of the same day
NextAvailRace ==
    \E p \in Procs : AvailBegin(p, {"du1"}, Dates, {<< >>}) \/ AvailSave(p)

SpecAvailRace == Init /\ [][NextAvailRace]_vars

\* the slot generator alone: one call for every start time, end time and slot
\* duration of the sets below
GenHours == {8, 9, 12, 16, 17}
GenMinutes == {0, 15, 30, 45}
GenTimes == {<<h, m>> : h \in GenHours, m \in GenMinutes}
GenDurations == {10, 15, 20, 30, 45, 60}

InitGen ==
    /\ InitStore(<< >>, {"D1"}, DoctorIds)
    /\ \E s \in GenTimes, e \in GenTimes, d \in GenDurations :
          gen = [NoCall EXCEPT !.startTime = s, !.endTime = e, !.slotDuration = d]

\* const slots = generateTimeSlots(startTime, endTime, slotDuration)
Generate ==
    /\ ~gen.returned
    /\ gen' = [gen EXCEPT
                  !.slots = generateTimeSlots(gen.startTime, gen.endTime, gen.slotDuration),
                  !.returned = TRUE]
    /\ UNCHANGED <<users, doctors, pets, reservations, availability, pc, req>>

SpecGen == InitGen /\ [][Generate]_vars

\* bookings of doctor D1, status updates by the owner and the doctor, and the
\* doctor changing the consultation fee; every write succeeds
NextFees ==
    \/ BookBegin(Worker, {"u1"}, Midnight, {T0900}) \/ BookSteps(Worker)
    \/ AvailBegin(Worker, {"du1"}, Midnight, {<< >>}) \/ AvailSave(Worker)
    \/ PutBegin(Worker, {"u1", "du1"}, {"completed", "cancelled"}) \/ PutSteps(Worker)
    \/ ProfileBegin(Worker, {"du1"}, FeeChoices) \/ ProfileSave(Worker)

SpecFees == Init /\ [][NextFees]_vars

\* cancellation and account closing: bookings of doctor D1, status updates
\* that start or cancel a visit sent by the owner, another user and the
\* doctor, and the owner or the doctor closing the account; every write succeeds
NextClosing ==
    \/ BookBegin(Worker, RegularUsers, Midnight, {T0900}) \/ BookSteps(Worker)
    \/ AvailBegin(Worker, {"du1"}, Midnight, {<< >>}) \/ AvailSave(Worker)
    \/ PutBegin(Worker, {"u1", "u2", "du1"}, {"in-progress", "cancelled"})
    \/ PutRelease(Worker) \/ PutSave(Worker)
    \/ DelBegin(Worker, AccountHolders) \/ DelSteps(Worker)

SpecClosing == Init /\ [][NextClosing]_vars

\* bookings by both users against a verified and an unverified doctor, each
\* publishing working and non-working days with a free slot, while the pet
\* owner and the verified doctor close their accounts; every write succeeds
NextPreconditions ==
    \/ BookBegin(Worker, RegularUsers, Midnight, {T0900}) \/ BookSteps(Worker)
    \/ AvailBegin(Worker, DoctorUsers, Midnight, {<<FreeSlot(T0900, T0930)>>}) \/ AvailSave(Worker)
    \/ DelBegin(Worker, AccountHolders) \/ DelSteps(Worker)

\* both doctors have a profile; D2 has not been verified
InitUnverified == InitStore(<< >>, DoctorIds, {"D1"}) /\ gen = NoCall

SpecPreconditions == InitUnverified /\ [][NextPreconditions]_vars

\* day 1 is a Tuesday, on which no doctor has working hours
Tuesday == <<1, 0>>
WeekDates == Midnight \cup {Tuesday}

\* one doctor publishing Monday and Tuesday, by generation or by a supplied
\* list, and one user booking on both days; every write succeeds
NextWeek ==
    \/ BookBegin(Worker, {"u1"}, WeekDates, {T0900}) \/ BookSteps(Worker)
    \/ AvailBegin(Worker, {"du1"}, WeekDates, {<<FreeSlot(T0900, T0930)>>}) \/ AvailSave(Worker)

SpecWeek == Init /\ [][NextWeek]_vars

\* both doctors are verified and have published day 0 with 09:00 and 09:30
InitTwoCalendars ==
    InitDb(<<[doctorId |-> "D1", date |-> <<0, 0>>, isWorkingDay |-> TRUE,
              timeSlots |-> generateTimeSlots(T0900, T1000, DefaultSlotDuration)],
             [doctorId |-> "D2", date |-> <<0, 0>>, isWorkingDay |-> TRUE,
              timeSlots |-> generateTimeSlots(T0900, T1000, DefaultSlotDuration)]>>,
           DoctorIds)

\* the (doctor, start time) pairs handler p sends: no pair is sent by both
Targets(p) ==
    IF p = Worker
    THEN {<<"D1", T0900>>}
    ELSE {<<"D1", T0930>>, <<"D2", T0900>>, <<"D2", T0930>>}

BookOwnSlot(p) ==
    /\ pc[p] = "idle"
    /\ \E x \in Targets(p), date \in Dates :
          BookRequest(p, "u1", x[1], "p1", date, x[2])

\* bookings of different slots in flight together, their steps interleaving
NextSlots ==
    \E p \in Procs : BookOwnSlot(p) \/ BookSteps(p)

SpecSlots == InitTwoCalendars /\ [][NextSlots]_vars

\* status updates in flight together on a reservation whose booking has
\* answered and that is pending or confirmed when each of them is sent
RacePut(p) ==
    /\ pc[p] = "idle"
    /\ \E u \in {"u1", "du1"}, rid \in DOMAIN reservations, status \in Statuses :
          /\ \A q \in Procs : ~(req[q].op = "book" /\ req[q].rid = rid)
          /\ reservations[rid].status \in {"pending", "confirmed"}
          /\ PutRequest(p, u, rid, status)

\* one user books on the generated day; the owner's and the doctor's status
\* updates interleave freely; every write succeeds
NextPutRace ==
    \/ BookBegin(Worker, {"u1"}, Midnight, {T0900}) \/ BookSteps(Worker)
    \/ \E p \in Procs : RacePut(p) \/ PutSteps(p)

SpecPutRace == InitDay /\ [][NextPutRace]_vars

\* bookings and owner cancellations of one user in flight together on the
\* generated day, their steps interleaving freely; every write succeeds
NextCancelRace ==
    \E p \in Procs :
        \/ BookBegin(p, {"u1"}, Midnight, Times) \/ BookSteps(p)
        \/ PutBegin(p, {"u1"}, {"cancelled"}) \/ PutRelease(p) \/ PutSave(p)

SpecCancelRace == InitDay /\ [][NextCancelRace]_vars

\* ------------------------------------------------------------- vocabulary
Quiescent == \A p \in Procs : pc[p] = "idle"

\* (doctorId, appointmentDate day, appointmentTime) of a reservation
SlotKey(reservation) ==
    <<reservation.doctorId, reservation.appointmentDate[1], reservation.appointmentTime>>

\* some slot of some day carries the reservation's id
Held(rid) ==
    \E i \in DOMAIN availability : \E k \in DOMAIN availability[i].timeSlots :
        availability[i].timeSlots[k].reservationId = rid

\* in the collection days, the doctor's record of the reservation's day has the
\* reservation's slot claimed for it
ClaimedIn(days, reservation, rid) ==
    \E i \in DOMAIN days : \E k \in DOMAIN days[i].timeSlots :
        /\ days[i].doctorId = reservation.doctorId
        /\ InDayRange(days[i].date, reservation.appointmentDate)
        /\ days[i].timeSlots[k].startTime = reservation.appointmentTime
        /\ ~days[i].timeSlots[k].isAvailable
        /\ days[i].timeSlots[k].reservationId = rid

SlotClaimedFor(rid) == ClaimedIn(availability, reservations[rid], rid)

TerminalStatuses == {"completed", "cancelled", "no-show"}

\* ------------------------------------------------------------------ claims

\* C1: of the booking requests that run concurrently against one slot that is
\* available at first, exactly one creates a reservation: no two reservations
\* ever exist for the same (doctorId, appointmentDate day, appointmentTime).
C1_MutualExclusion ==
    \A r1, r2 \in DOMAIN reservations :
        r1 # r2 => SlotKey(reservations[r1]) # SlotKey(reservations[r2])

\* C2: under requests served one at a time, no two reservations that are not
\* cancelled share (doctorId, appointmentDate day, appointmentTime).
C2_NoDoubleBooking ==
    \A r1, r2 \in DOMAIN reservations :
        (/\ r1 # r2
         /\ reservations[r1].status # "cancelled"
         /\ reservations[r2].status # "cancelled")
        => SlotKey(reservations[r1]) # SlotKey(reservations[r2])

\* C3: between requests, every reservation that is not cancelled has, in its
\* doctor's record of its day, a slot at its appointmentTime with
\* isAvailable = false and reservationId equal to its id.
C3_Ownership ==
    Quiescent =>
        \A rid \in DOMAIN reservations :
            reservations[rid].status # "cancelled" => SlotClaimedFor(rid)

\* C4: a booking request that has persisted its Reservation record has claimed
\* the slot for it before: also between the database steps of the request, the
\* record never exists without its slot claimed.
C4_ClaimBeforePersist ==
    \A p \in Procs :
        pc[p] \in {"book_update_slot", "book_inc"} => SlotClaimedFor(req[p].rid)

\* C5: when a booking request answers with an error because a write failed
\* after its reservation was saved, the save has been compensated: the
\* reservation is not left persisted without its slot claimed.
C5_Compensation ==
    [][\A p \in Procs :
          (pc[p] \in {"book_update_slot", "book_inc"} /\ pc'[p] = "idle")
          => \/ req[p].rid \notin DOMAIN reservations'
             \/ reservations'[req[p].rid].status = "cancelled"
             \/ ClaimedIn(availability', reservations'[req[p].rid], req[p].rid)]_vars

\* C6: for every slot of every calendar day, isAvailable = false if and only
\* if reservationId is set.
C6_SlotInvariant ==
    \A i \in DOMAIN availability : \A k \in DOMAIN availability[i].timeSlots :
        (~availability[i].timeSlots[k].isAvailable)
            <=> (availability[i].timeSlots[k].reservationId # NoId)

\* C7: once the operation that cancelled a reservation has completed, no slot
\* is still held by that reservation.
C7_CancelReleases ==
    Quiescent =>
        \A rid \in DOMAIN reservations :
            reservations[rid].status = "cancelled" => ~Held(rid)

\* C8: when the owner cancels a reservation whose booking claimed a slot, the
\* release leaves that slot with isAvailable = true and no reservationId, and
\* the availability check of a new booking for the same start time passes.
C8_RoundTrip ==
    [][\A p \in Procs :
          (pc[p] = "put_release" /\ pc'[p] = "put_save")
          => \A i \in DayDocs(req[p].doctorId, req[p].date) :
               \A k \in DOMAIN availability[i].timeSlots :
                  (/\ availability[i].timeSlots[k].startTime = req[p].time
                   /\ ~availability[i].timeSlots[k].isAvailable
                   /\ availability[i].timeSlots[k].reservationId = req[p].rid)
                  => /\ availability'[i].timeSlots[k].isAvailable
                     /\ availability'[i].timeSlots[k].reservationId = NoId
                     /\ availability'[i].isWorkingDay
                     /\ HasFreeSlot(availability'[i].timeSlots, req[p].time)]_vars

\* C8 witness: a reservation cancelled by its owner, its slot booked again by a
\* later reservation that now holds it.
C8_Witness ==
    \E r1, r2 \in DOMAIN reservations :
        /\ r1 < r2
        /\ SlotKey(reservations[r1]) = SlotKey(reservations[r2])
        /\ reservations[r1].status = "cancelled"
        /\ reservations[r1].cancellation.reason = "Cancelled by user"
        /\ ~Held(r1)
        /\ SlotClaimedFor(r2)

\* C9: once a reservation is completed, cancelled or no-show its status never
\* changes again.
C9_Terminal ==
    [][\A rid \in DOMAIN reservations :
          reservations[rid].status \in TerminalStatuses
          => reservations'[rid].status = reservations[rid].status]_vars

\* the moves C10 allows
StatusRank(st) ==
    CASE st = "pending" -> 0 [] st = "confirmed" -> 1
      [] st = "in-progress" -> 2 [] st = "completed" -> 3 [] OTHER -> 4

ForwardMove(from, to) ==
    \/ StatusRank(from) < StatusRank(to) /\ StatusRank(to) <= 3
    \/ to \in {"cancelled", "no-show"} /\ from \in {"pending", "confirmed"}

\* C10: a status only moves forward along pending, confirmed, in-progress,
\* completed, and to cancelled or no-show only from pending or confirmed.
C10_ForwardOnly ==
    [][\A rid \in DOMAIN reservations :
          reservations'[rid].status # reservations[rid].status
          => ForwardMove(reservations[rid].status, reservations'[rid].status)]_vars

\* a step sets the status of reservation rid to cancelled
BecomesCancelled(rid) ==
    reservations[rid].status # "cancelled" /\ reservations'[rid].status = "cancelled"

\* handler p is a status update sent by user u
IsPutOf(p, u) == req[p].op = "put" /\ req[p].user = u

\* handler p is closing the account of user u
IsAccountClosingOf(p, u) == req[p].op \in {"deactivate", "permanent"} /\ req[p].user = u

\* C11 as stated: a request to cancel goes on to its writes only when sent by
\* the owning user on a pending or confirmed reservation, and every step that
\* sets a status to cancelled belongs to a request of the owning user.
C11_OnlyOwnerCancels ==
    [][/\ \A p \in Procs :
            (pc[p] = "idle" /\ pc'[p] # "idle" /\ req'[p].op = "put"
                /\ req'[p].status = "cancelled")
            => /\ req'[p].user = reservations[req'[p].rid].userId
               /\ reservations[req'[p].rid].status \in {"pending", "confirmed"}
               /\ reservations' = reservations /\ availability' = availability
       /\ \A rid \in DOMAIN reservations :
            BecomesCancelled(rid)
            => \E p \in Procs : pc[p] # "idle" /\ req[p].user = reservations[rid].userId]_vars

\* C11 amended: as C11 for the status-update operation; besides it, only the
\* closing of the account of the owning user or of the assigned doctor sets a
\* status to cancelled, and only on a pending or confirmed reservation.
C11_CancelSources ==
    [][/\ \A p \in Procs :
            (pc[p] = "idle" /\ pc'[p] # "idle" /\ req'[p].op = "put"
                /\ req'[p].status = "cancelled")
            => /\ req'[p].user = reservations[req'[p].rid].userId
               /\ reservations[req'[p].rid].status \in {"pending", "confirmed"}
               /\ reservations' = reservations /\ availability' = availability
       /\ \A rid \in DOMAIN reservations :
            BecomesCancelled(rid)
            => \E p \in Procs :
                 \/ IsPutOf(p, reservations[rid].userId)
                 \/ /\ reservations[rid].status \in {"pending", "confirmed"}
                    /\ \/ IsAccountClosingOf(p, reservations[rid].userId)
                       \/ IsAccountClosingOf(p, doctors[reservations[rid].doctorId].userId)]_vars

\* C11 witness: one reservation cancelled by its owner's status update, another
\* cancelled when the assigned doctor closed the account.
C11_Witness ==
    \E r1, r2 \in DOMAIN reservations :
        /\ reservations[r1].status = "cancelled"
        /\ reservations[r1].cancellation.cancelledBy = reservations[r1].userId
        /\ reservations[r1].cancellation.reason = "Cancelled by user"
        /\ reservations[r2].status = "cancelled"
        /\ reservations[r2].cancellation.cancelledBy = doctors[reservations[r2].doctorId].userId

\* a status update of reservation rid to status, sent by user u, passes the
\* handler's checks and goes on to its writes
PutProceeds(u, rid, status) ==
    ENABLED (/\ PutBegin(Worker, {u}, {status})
             /\ pc'[Worker] # "idle"
             /\ req'[Worker].rid = rid)

AssignedDoctorUser(rid) == doctors[reservations[rid].doctorId].userId

\* C12 as stated: the assigned doctor's status update to cancelled is accepted
\* on every pending or confirmed reservation.
C12_DoctorCanCancel ==
    \A rid \in DOMAIN reservations :
        (Quiescent /\ reservations[rid].status \in {"pending", "confirmed"})
        => PutProceeds(AssignedDoctorUser(rid), rid, "cancelled")

\* C12 amended: the status-update operation takes a cancellation of a pending
\* or confirmed reservation from its owning user only; a doctor's request to
\* set cancelled never reaches a write, and the owner's cancellation leaves no
\* slot held and records who cancelled and why.
C12_OwnerCancelsNotDoctor ==
    [][\A p \in Procs :
          /\ (pc[p] = "idle" /\ pc'[p] # "idle" /\ req'[p].op = "put"
                 /\ req'[p].status = "cancelled")
             => /\ users[req'[p].user].userType # "doctor"
                /\ pc'[p] = "put_release"
          /\ (pc[p] = "put_save" /\ pc'[p] = "idle" /\ req[p].status = "cancelled")
             => /\ reservations'[req[p].rid].status = "cancelled"
                /\ reservations'[req[p].rid].cancellation =
                       [cancelledBy |-> reservations[req[p].rid].userId,
                        reason |-> "Cancelled by user"]
                /\ ~\E i \in DOMAIN availability' :
                       \E k \in DOMAIN availability'[i].timeSlots :
                          availability'[i].timeSlots[k].reservationId = req[p].rid]_vars

\* C12 witness: a pending or confirmed reservation that its owner can cancel
\* and its assigned doctor cannot.
C12_Witness ==
    \E rid \in DOMAIN reservations :
        /\ Quiescent
        /\ reservations[rid].status \in {"pending", "confirmed"}
        /\ SlotClaimedFor(rid)
        /\ PutProceeds(reservations[rid].userId, rid, "cancelled")
        /\ ~PutProceeds(AssignedDoctorUser(rid), rid, "cancelled")

VisitStatuses == {"confirmed", "in-progress", "completed", "no-show"}

\* user u is a doctor whose doctor profile is the one reservation rid names
IsAssignedDoctor(u, rid) ==
    /\ users[u].exists /\ users[u].userType = "doctor"
    /\ doctors[reservations[rid].doctorId].exists
    /\ doctors[reservations[rid].doctorId].userId = u

\* C13: a request to set confirmed, in-progress, completed or no-show goes on
\* to its writes only when sent by the assigned doctor; a status becomes one of
\* these, and the statistics of a doctor change through a status update, only
\* in a request of the assigned doctor.
C13_OnlyAssignedDoctor ==
    [][/\ \A p \in Procs :
            (pc[p] = "idle" /\ pc'[p] # "idle" /\ req'[p].op = "put"
                /\ req'[p].status \in VisitStatuses)
            => IsAssignedDoctor(req'[p].user, req'[p].rid)
       /\ \A rid \in DOMAIN reservations :
            (/\ reservations'[rid].status # reservations[rid].status
             /\ reservations'[rid].status \in VisitStatuses)
            => \E p \in Procs : req[p].op = "put" /\ req[p].rid = rid
                                  /\ IsAssignedDoctor(req[p].user, rid)
       /\ \A p \in Procs : \A d \in DoctorIds :
            (req[p].op = "put" /\ doctors'[d].statistics # doctors[d].statistics)
            => /\ d = reservations[req[p].rid].doctorId
               /\ IsAssignedDoctor(req[p].user, req[p].rid)]_vars

\* C13 witness: a reservation its assigned doctor has started, which neither
\* the other doctor nor its owner can move.
C13_Witness ==
    \E rid \in DOMAIN reservations : \E other \in DoctorUsers :
        /\ Quiescent
        /\ reservations[rid].status = "in-progress"
        /\ ~IsAssignedDoctor(other, rid)
        /\ DoctorOf(other) # NoDoctor
        /\ ~PutProceeds(other, rid, "no-show")
        /\ ~PutProceeds(reservations[rid].userId, rid, "confirmed")
        /\ PutProceeds(AssignedDoctorUser(rid), rid, "no-show")

\* in the doctor's record of the day, a slot starting at time t carries a reservation
HeldSlotAt(d, date, t) ==
    \E i \in DayDocs(d, date) : \E k \in DOMAIN availability[i].timeSlots :
        /\ availability[i].timeSlots[k].startTime = t
        /\ availability[i].timeSlots[k].reservationId \in DOMAIN reservations

\* C14: a booking request for a (doctor, date, time) whose slot is held by a
\* reservation is rejected before any write: it creates no reservation and
\* leaves the calendar and the doctor's counters as they are.
C14_SecondBookingRejected ==
    [][\A p \in Procs :
          (/\ pc[p] = "idle" /\ req'[p].op = "book"
           /\ HeldSlotAt(req'[p].doctorId, req'[p].date, req'[p].time))
          => pc'[p] = "idle"]_vars

\* a booking of (d, date, t) sent by user u passes the handler's checks and
\* goes on to save a reservation
BookProceeds(u, d, date, t) ==
    ENABLED (/\ BookBegin(Worker, {u}, {date}, {t})
             /\ pc'[Worker] = "book_save"
             /\ req'[Worker].doctorId = d)

\* the start times the slot generator gives the doctor on the weekday of date
GeneratedStarts(d, date) ==
    IF EnabledHours(d, date) = {}
    THEN {}
    ELSE LET slots == generateTimeSlots(FirstEnabledHours(d, date).startTime,
                                        FirstEnabledHours(d, date).endTime,
                                        DefaultSlotDuration)
         IN {slots[k].startTime : k \in DOMAIN slots}

\* a user whose booking passes every check that comes before the calendar
CanBookWith(u, d) ==
    /\ users[u].exists /\ users[u].userType = "user"
    /\ doctors[d].exists /\ doctors[d].isActive /\ doctors[d].isVerified
    /\ \E pt \in PetIds : pets[pt].exists /\ pets[pt].ownerId = u /\ pets[pt].isActive
    /\ Len(reservations) < MaxRes

GeneratedSlots(d, date) ==
    generateTimeSlots(FirstEnabledHours(d, date).startTime,
                      FirstEnabledHours(d, date).endTime, DefaultSlotDuration)

\* the windows of a slot list, occupancy left out
Windows(slots) == [k \in DOMAIN slots |-> <<slots[k].startTime, slots[k].endTime>>]

\* C16: generating a day from the working hours a second time, over the record
\* the first generation created for that (doctor, date), leaves the record's
\* slot list, with every isAvailable and reservationId, as it was.
C16_EnsureDayIdempotent ==
    [][\A p \in Procs :
          (/\ pc[p] = "avail_save" /\ pc'[p] = "idle"
           /\ req[p].availId # NoId
           /\ EnabledHours(req[p].doctorId, req[p].date) # {}
           /\ req[p].isWorkingDay
           /\ req[p].slots = GeneratedSlots(req[p].doctorId, req[p].date)
           /\ availability[req[p].availId].isWorkingDay
           /\ Windows(availability[req[p].availId].timeSlots) = Windows(req[p].slots))
          => availability'[req[p].availId].timeSlots
                = availability[req[p].availId].timeSlots]_vars

\* C17: at most one Availability record exists per (doctorId, calendar day),
\* whatever the instant of the day its date carries.
C17_OneRecordPerDay ==
    \A i, j \in DOMAIN availability :
        (/\ availability[i].doctorId = availability[j].doctorId
         /\ availability[i].date[1] = availability[j].date[1])
        => i = j

\* C18: a call with start < end returns floor((end - start) / slotDuration)
\* slots; slot k runs from start + (k - 1) * slotDuration to
\* start + k * slotDuration, so the first starts at start, each is
\* slotDuration long and begins where the previous one ends; none ends after
\* end; every slot is available with no reservationId; 09:00 to 17:00 by 30
\* gives the 16 slots from 09:00-09:30 to 16:30-17:00.
C18_SlotGeneration ==
    (gen.returned /\ ParseTime(gen.startTime) < ParseTime(gen.endTime))
    => LET s == ParseTime(gen.startTime)
           e == ParseTime(gen.endTime)
           d == gen.slotDuration
       IN /\ Len(gen.slots) = (e - s) \div d
          /\ \A k \in DOMAIN gen.slots :
                /\ ParseTime(gen.slots[k].startTime) = s + (k - 1) * d
                /\ ParseTime(gen.slots[k].endTime) = s + k * d
                /\ ParseTime(gen.slots[k].endTime) <= e
                /\ gen.slots[k].isAvailable
                /\ gen.slots[k].reservationId = NoId
          /\ (gen.startTime = <<9, 0>> /\ gen.endTime = <<17, 0>> /\ d = DefaultSlotDuration)
             => /\ Len(gen.slots) = 16
                /\ gen.slots[1] = FreeSlot(<<9, 0>>, <<9, 30>>)
                /\ gen.slots[16] = FreeSlot(<<16, 30>>, <<17, 0>>)

\* C18 witness: the call 09:00 to 17:00 by 30 has returned its 16 slots
C18_Witness ==
    /\ gen.returned
    /\ gen.startTime = <<9, 0>> /\ gen.endTime = <<17, 0>>
    /\ gen.slotDuration = DefaultSlotDuration
    /\ Len(gen.slots) = 16

\* a call whose window leaves a remainder that is dropped
C18_WitnessRemainder ==
    /\ gen.returned
    /\ gen.startTime = <<9, 0>> /\ gen.endTime = <<17, 0>> /\ gen.slotDuration = 45
    /\ Len(gen.slots) = 10
    /\ gen.slots[10].endTime = <<16, 30>>

\* C19: a reservation is created pending, with the doctor's consultationFee of
\* that moment, additionalCharges 0, paymentStatus pending and totalAmount
\* their sum; afterwards no step changes its fees, so totalAmount stays
\* consultationFee + additionalCharges whatever happens to its status or to
\* the doctor's fee.
C19_CreationValues ==
    [][/\ \A rid \in DOMAIN reservations' :
            rid \notin DOMAIN reservations
            => /\ reservations'[rid].status = "pending"
               /\ reservations'[rid].fees.consultationFee
                     = doctors[reservations'[rid].doctorId].consultationFee
               /\ reservations'[rid].fees.additionalCharges = 0
               /\ reservations'[rid].fees.paymentStatus = "pending"
       /\ \A rid \in DOMAIN reservations :
            reservations'[rid].fees = reservations[rid].fees
       /\ \A rid \in DOMAIN reservations' :
            reservations'[rid].fees.totalAmount
               = reservations'[rid].fees.consultationFee
                    + reservations'[rid].fees.additionalCharges]_vars

\* C19 witness: a reservation booked at the fee of 150 whose status has moved
\* on and whose doctor has changed the fee since.
C19_Witness ==
    \E rid \in DOMAIN reservations :
        /\ reservations[rid].fees.consultationFee = Fee
        /\ reservations[rid].fees.totalAmount = Fee
        /\ reservations[rid].status = "completed"
        /\ doctors[reservations[rid].doctorId].consultationFee # Fee

\* C20: no step of a status update to confirmed, in-progress, completed or
\* no-show changes a calendar day record, so a slot claimed for the
\* reservation is still unavailable with its reservationId once the update
\* has been saved.
C20_NoReleaseOnVisitStatus ==
    [][\A p \in Procs :
          (req[p].op = "put" /\ req[p].status \in VisitStatuses)
          => /\ availability' = availability
             /\ (pc[p] = "put_save" /\ SlotClaimedFor(req[p].rid))
                => /\ reservations'[req[p].rid].status = req[p].status
                   /\ ClaimedIn(availability', reservations'[req[p].rid], req[p].rid)]_vars

\* C20 witness: a reservation its doctor has completed, still holding the slot
\* its booking claimed.
C20_Witness ==
    \E rid \in DOMAIN reservations :
        /\ Quiescent
        /\ reservations[rid].status = "completed"
        /\ SlotClaimedFor(rid)
        /\ doctors[reservations[rid].doctorId].statistics.completedReservations > 0

\* C21: completedReservations and totalPatients of a doctor move only by one,
\* together, in a status update that makes a reservation of that doctor enter
\* completed: the reservation was not completed before, and the update ends
\* with the reservation saved as completed.
C21_CompletionStatistics ==
    [][/\ \A d \in DoctorIds :
            doctors'[d].statistics # doctors[d].statistics
            => \/ /\ doctors'[d].statistics.completedReservations
                        = doctors[d].statistics.completedReservations
                  /\ doctors'[d].statistics.totalPatients
                        = doctors[d].statistics.totalPatients
               \/ /\ doctors'[d].statistics.completedReservations
                        = doctors[d].statistics.completedReservations + 1
                  /\ doctors'[d].statistics.totalPatients
                        = doctors[d].statistics.totalPatients + 1
                  /\ \E p \in Procs :
                        /\ pc[p] = "put_inc"
                        /\ reservations[req[p].rid].doctorId = d
                        /\ reservations[req[p].rid].status # "completed"
       /\ \A p \in Procs :
            (pc[p] = "put_save" /\ req[p].status = "completed" /\ pc'[p] = "idle")
            => reservations'[req[p].rid].status = "completed"]_vars

\* C22: once every booking request has answered, totalReservations of a doctor
\* is the number of Reservation records that name the doctor.
C22_ReservationCounter ==
    Quiescent =>
        \A d \in DoctorIds :
            doctors[d].exists
            => doctors[d].statistics.totalReservations
                  = Cardinality({rid \in DOMAIN reservations : reservations[rid].doctorId = d})

\* C23: a booking request goes on to its writes only if the doctor exists, is
\* active and verified, the pet exists, is active and belongs to the
\* requesting user, and the day's record has isWorkingDay = true; otherwise
\* the request ends with no reservation created, no slot changed and no
\* counter incremented.
C23_BookingPreconditions ==
    [][\A p \in Procs :
          /\ (pc[p] = "idle" /\ pc'[p] = "book_save")
             => /\ doctors[req'[p].doctorId].exists
                /\ doctors[req'[p].doctorId].isActive
                /\ doctors[req'[p].doctorId].isVerified
                /\ pets[req'[p].petId].exists
                /\ pets[req'[p].petId].isActive
                /\ pets[req'[p].petId].ownerId = req'[p].user
                /\ availability[req'[p].availId].isWorkingDay
          /\ (\A q \in Procs : pc[q] \notin {"book_save", "book_update_slot", "book_inc"})
             => /\ Len(reservations') = Len(reservations)
                /\ \A d \in DoctorIds :
                      doctors'[d].statistics.totalReservations
                         = doctors[d].statistics.totalReservations
                /\ \A i \in DOMAIN availability \cap DOMAIN availability' :
                      \A k \in DOMAIN availability[i].timeSlots \cap DOMAIN availability'[i].timeSlots :
                         (availability[i].timeSlots[k].reservationId = NoId
                          /\ availability[i].timeSlots[k].isAvailable)
                         => availability'[i].timeSlots[k].reservationId = NoId]_vars

\* C23 witness: the unverified doctor holds a working day with a free 09:00
\* slot, the verified doctor a non-working day with a free 09:00 slot, and the
\* pet owner's booking goes on with neither.
C23_Witness ==
    /\ Quiescent
    /\ \E i, j \in DOMAIN availability :
          /\ availability[i].doctorId = "D1" /\ ~availability[i].isWorkingDay
          /\ HasFreeSlot(availability[i].timeSlots, T0900)
          /\ availability[j].doctorId = "D2" /\ availability[j].isWorkingDay
          /\ HasFreeSlot(availability[j].timeSlots, T0900)
    /\ doctors["D1"].exists /\ doctors["D1"].isActive /\ doctors["D1"].isVerified
    /\ ~doctors["D2"].isVerified
    /\ pets["p1"].exists /\ pets["p1"].isActive
    /\ Len(reservations) < MaxRes
    /\ ~BookProceeds("u1", "D1", <<0, 0>>, T0900)
    /\ ~BookProceeds("u1", "D2", <<0, 0>>, T0900)

\* a generation request of doctor user u for date (generateFromWorkingHours
\* set, isWorkingDay not false) goes on to availability.save()
GenerateProceeds(u, date) ==
    ENABLED (/\ pc[Worker] = "idle"
             /\ AvailRequest(Worker, u, date, TRUE, TRUE, << >>)
             /\ pc'[Worker] = "avail_save")

\* such a request goes on to save the day as non-working with no slots
GenerateRecordsNonWorking(u, date) ==
    ENABLED (/\ pc[Worker] = "idle"
             /\ AvailRequest(Worker, u, date, TRUE, TRUE, << >>)
             /\ pc'[Worker] = "avail_save"
             /\ ~req'[Worker].isWorkingDay
             /\ req'[Worker].slots = << >>)

\* doctor user u has a profile and no enabled working hours on the weekday of date
NoHoursOn(u, date) ==
    /\ users[u].exists /\ users[u].userType = "doctor"
    /\ DoctorOf(u) # NoDoctor
    /\ EnabledHours(DoctorOf(u), date) = {}

\* C24 as stated: when a day is to be generated and the doctor has no enabled
\* working hours for the weekday, the request goes on to persist the day as a
\* record with isWorkingDay = false and an empty slot list.
C24_FailureRecordsDay ==
    \A u \in DoctorUsers : \A date \in WeekDates :
        (Quiescent /\ NoHoursOn(u, date)) => GenerateRecordsNonWorking(u, date)

\* C24 amended: when a day is to be generated and the doctor has no enabled
\* working hours for the weekday, the request is rejected before any write, so
\* no record is created and an existing record of the day stays as it is; a
\* booking against the day is then rejected when the day has no record or a
\* non-working one.
C24_FailurePersistsNothing ==
    \A u \in DoctorUsers : \A date \in WeekDates :
        (Quiescent /\ NoHoursOn(u, date))
        => /\ ~GenerateProceeds(u, date)
           /\ ((\A i \in DayDocs(DoctorOf(u), date) : ~availability[i].isWorkingDay)
               => \A b \in RegularUsers : ~BookProceeds(b, DoctorOf(u), date, T0900))

\* C24 witness: on the Tuesday, without working hours, generation is rejected
\* while the working-day record the doctor supplied earlier, with its free
\* 09:00 slot, is still there and still takes a booking.
C24_Witness ==
    /\ Quiescent
    /\ NoHoursOn("du1", Tuesday)
    /\ ~GenerateProceeds("du1", Tuesday)
    /\ \E i \in DayDocs("D1", Tuesday) :
          availability[i].isWorkingDay /\ HasFreeSlot(availability[i].timeSlots, T0900)
    /\ BookProceeds("u1", "D1", Tuesday, T0900)
    /\ GenerateProceeds("du1", <<0, 0>>)

\* C25: when the owner cancels a pending or confirmed reservation whose id no
\* slot carries, the request is accepted, its release step leaves every slot
\* of every calendar day as it was, and its save sets the status to cancelled.
C25_ReleaseNoOp ==
    [][/\ \A rid \in DOMAIN reservations :
            (/\ Quiescent
             /\ reservations[rid].status \in {"pending", "confirmed"}
             /\ ~Held(rid))
            => PutProceeds(reservations[rid].userId, rid, "cancelled")
       /\ \A p \in Procs :
            (req[p].op = "put" /\ req[p].setCancel /\ ~Held(req[p].rid))
            => /\ availability' = availability
               /\ pc[p] = "put_release" => pc'[p] = "put_save"
               /\ pc[p] = "put_save"
                  => /\ pc'[p] = "idle"
                     /\ reservations'[req[p].rid].status = "cancelled"]_vars

\* C25 witness: the owner's cancellation of reservation 1 has passed its
\* release step while the only slot of the day, overwritten and booked again,
\* carries reservation 2.
C25_Witness ==
    /\ pc[Worker] = "put_save"
    /\ req[Worker].setCancel
    /\ req[Worker].rid = 1
    /\ reservations[1].status \in {"pending", "confirmed"}
    /\ ~Held(1)
    /\ Len(reservations) = 2
    /\ SlotKey(reservations[1]) = SlotKey(reservations[2])
    /\ SlotClaimedFor(2)

\* C26: in every state a reservation has cancellation data (who cancelled and
\* why) if and only if its status is cancelled.
C26_CancellationMetadata ==
    \A rid \in DOMAIN reservations :
        (reservations[rid].cancellation # NoCancellation)
            <=> (reservations[rid].status = "cancelled")

\* the slot of (doctor, start time) pair x is free on day 0
SlotFreeAt(x) ==
    \E i \in DayDocs(x[1], <<0, 0>>) : HasFreeSlot(availability[i].timeSlots, x[2])

\* handler p's booking of pair x passes the checks and goes on to save
OwnSlotProceeds(p, x) ==
    ENABLED (/\ BookOwnSlot(p)
             /\ pc'[p] = "book_save"
             /\ req'[p].doctorId = x[1]
             /\ req'[p].time = x[2])

\* C27: booking requests that run concurrently for different start times of
\* one doctor's day, or for different doctors, do not contend: a request for a
\* free slot is accepted whatever the other request is doing, and from its
\* claim step on each reservation's slot is unavailable and carries the id of
\* that reservation.
C27_NoContention ==
    /\ \A p \in Procs : \A x \in Targets(p) :
          (/\ pc[p] = "idle" /\ SlotFreeAt(x)
           /\ Len(reservations) + BookingsAboutToSave < MaxRes)
          => OwnSlotProceeds(p, x)
    /\ \A p \in Procs : \A x \in Targets(p) :
          SlotFreeAt(x) \/ \E rid \in DOMAIN reservations :
                              /\ reservations[rid].doctorId = x[1]
                              /\ reservations[rid].appointmentTime = x[2]
    /\ \A rid \in DOMAIN reservations :
          (\A p \in Procs : ~(pc[p] = "book_update_slot" /\ req[p].rid = rid))
          => SlotClaimedFor(rid)

\* C27 witness: two bookings of doctor D1's day, 09:00 and 09:30, are in
\* flight together, both past their claim step, each slot carrying the id of
\* its own reservation.
C27_Witness ==
    /\ \A p \in Procs : pc[p] = "book_inc" /\ req[p].doctorId = "D1"
    /\ req[1].time # req[2].time
    /\ req[1].rid # req[2].rid
    /\ \A p \in Procs : SlotClaimedFor(req[p].rid)

\* C28: when the owner's cancellation and the assigned doctor's status update
\* of one reservation, pending or confirmed when each is sent, run together,
\* then once both have answered the reservation's slot is released exactly if
\* the status is cancelled, and cancellation data is present exactly if the
\* status is cancelled.
C28_CancelRacesUpdate ==
    Quiescent =>
        \A rid \in DOMAIN reservations :
            /\ ~SlotClaimedFor(rid) <=> reservations[rid].status = "cancelled"
            /\ (reservations[rid].cancellation # NoCancellation)
                  <=> reservations[rid].status = "cancelled"

\* C29: when the doctor creates or updates a day's availability while a slot
\* of that day is held by a reservation that is not cancelled, the slot is
\* still there after the save, unavailable and with the same reservationId.
C29_UpdatePreservesClaims ==
    [][\A p \in Procs :
          (pc[p] = "avail_save" /\ pc'[p] = "idle")
          => \A rid \in DOMAIN reservations :
                (/\ reservations[rid].status # "cancelled"
                 /\ reservations[rid].doctorId = req[p].doctorId
                 /\ SlotClaimedFor(rid))
                => ClaimedIn(availability', reservations'[rid], rid)]_vars

\* C30: the release step of the cancellation of reservation R leaves every
\* slot that does not carry R's id exactly as it was, isAvailable and
\* reservationId included, whatever the other requests in flight have done:
\* also when R's slot was released earlier and booked again, or was
\* overwritten by a racing booking.
C30_FreesOnlyOwnSlot ==
    [][\A p \in Procs :
          (pc[p] = "put_release" /\ pc'[p] = "put_save")
          => /\ DOMAIN availability' = DOMAIN availability
             /\ \A i \in DOMAIN availability :
                   /\ DOMAIN availability'[i].timeSlots = DOMAIN availability[i].timeSlots
                   /\ \A k \in DOMAIN availability[i].timeSlots :
                         availability[i].timeSlots[k].reservationId # req[p].rid
                         => availability'[i].timeSlots[k] = availability[i].timeSlots[k]]_vars

\* C30 witness: a second cancellation of reservation 1, sent together with the
\* first, has passed its release step after the first one released the slot
\* and reservation 2 booked it again; the slot still carries reservation 2.
C30_Witness ==
    \E p \in Procs :
        /\ pc[p] = "put_save"
        /\ req[p].setCancel
        /\ req[p].rid = 1
        /\ Len(reservations) = 2
        /\ reservations[1].status = "cancelled"
        /\ reservations[2].status = "pending"
        /\ SlotKey(reservations[1]) = SlotKey(reservations[2])
        /\ SlotClaimedFor(2)

====
